---- MODULE Spec2Model ----
(***************************************************************************)
(* FoxControl gateway (src/src/gateway.cpp, src/src/gateway.hpp,           *)
(* src/src/dto.hpp): the bounded task queue, the device state record and   *)
(* the two-tier credential protocol, as run by the HTTP worker threads and *)
(* the console thread.                                                     *)
(*                                                                         *)
(* A step of the model is one critical section, from the acquisition of    *)
(* its std::shared_mutex to the release (the handlers touch nothing shared *)
(* but the guarded member inside one), or one access to an atomic member,  *)
(* each together with the thread-local code that follows it.  A mutex that *)
(* is released within its step is free between steps; the only holds that  *)
(* outlive a step are shared holds a handler returns with, kept in         *)
(* `readers`.                                                              *)
(***************************************************************************)
EXTENDS Integers, Sequences, FiniteSets, TLC

\* ------------------------------------------------------------- bounds
\* Largest configured backlog (the constructor's argument is drawn from 0..MaxBacklog).
MaxBacklog == 2
\* Task objects submitted by enqueue requests over one run.
MaxTasks == 3
\* Elements of one request's tasks array.
MaxReqTasks == 2
\* newsession requests over one run (each rejected one leaves a shared hold behind).
MaxNewSessions == 2

\* ------------------------------------------------------------ threads
Workers == {"w1", "w2"}
Console == "console"
\* The thread that constructs the gateway and blocks in _server.listen.
Main == "main"
Threads == Workers \cup {Console, Main}

\* The four std::shared_mutex members of Gateway.
Mutexes == {"tasks", "state", "password", "session"}

VARIABLES
    backlog,                \* Gateway::_backlog
    password,               \* Gateway::_password
    session_password,       \* Gateway::_session_password
    is_online,              \* Gateway::_is_online
    is_running,             \* Gateway::_is_running
    state,                  \* Gateway::_state
    tasks,                  \* Gateway::_tasks
    total_task_count,       \* Gateway::_total_task_count
    total_processed_count,  \* Gateway::_total_processed_count
    readers,                \* per mutex, per thread: shared holds kept across steps
    pc,                     \* per thread: position in its handler / loop
    req,                    \* per worker: the request being handled
    loc,                    \* per worker: the handler's local variables
    resp,                   \* the response sent by the last step, if it sent one
    hist                    \* history of the run (observations only)

vars == <<backlog, password, session_password, is_online, is_running, state,
          tasks, total_task_count, total_processed_count, readers,
          pc, req, loc, resp, hist>>

config == <<backlog, password>>
gateway == <<session_password, is_online, is_running, state, tasks,
             total_task_count, total_processed_count>>

\* ------------------------------------------------------------ DTOs
Has(body, f) == f \in DOMAIN body

\* dto::Mode::DEFAULT, the enumerator's value.
DEFAULT == 0

\* dto::DeviceState, value-initialised by the constructor's _state().
DefaultState ==
    [accepts_commands |-> FALSE, is_on |-> FALSE, target_speed |-> 0,
     actual_speed |-> 0, mode |-> DEFAULT]

\* JSON values of the fields of a state object: a boolean, a number, a string.
JBool(b) == [boolean |-> b]
JNum(n) == [number |-> n]
JStr(str) == [string |-> str]

IsJBool(j) == Has(j, "boolean")
IsJNum(j) == Has(j, "number")

\* The values of kstd::u8, the underlying type of dto::Mode.
u8_values == 256

\* A task object of a request's tasks array that has a type and its payload.
PowerOn == [type |-> "POWER", is_on |-> TRUE]
Speed5 == [type |-> "SPEED", speed |-> 5]
ModeDefault == [type |-> "MODE", mode |-> "DEFAULT"]
\* An element of the tasks array that is no object or has no type.
Junk == [nottask |-> TRUE]
\* A task object that has a type and lacks the payload of that type.
NoPayload == [type |-> "POWER"]

\* The payload field FOX_JSON_GET reads for a task of this type.
PayloadField(type) ==
    CASE type = "POWER" -> "is_on"
      [] type = "SPEED" -> "speed"
      [] type = "MODE" -> "mode"

\* The n-th task object the clients submit over a run: Power{on}, Speed{5},
\* Mode{default} in turn.
TaskObject(n) ==
    CASE n % 3 = 1 -> PowerOn
      [] n % 3 = 2 -> Speed5
      [] n % 3 = 0 -> ModeDefault

\* An element of an input tasks array that stands for the run's next task object.
AnyTask == [type |-> "any"]

IsTaskObject(item) == "type" \in DOMAIN item

\* dto::Task::deserialize: the union member selected by the type tag.
\* tag is history only (the program's tasks carry no identity): 0 until the task
\* is queued, then its rank among the tasks appended to the queue in the run.
Deserialize(item) ==
    CASE item.type = "POWER" -> [type |-> "POWER", val |-> item.is_on, tag |-> 0]
      [] item.type = "SPEED" -> [type |-> "SPEED", val |-> item.speed, tag |-> 0]
      [] item.type = "MODE" -> [type |-> "MODE", val |-> item.mode, tag |-> 0]

\* The task with the tag n.
Stamp(t, n) == [t EXCEPT !.tag = n]

\* dto::Task::serialize: the JSON object written for a queued task.
Serialize(t) ==
    CASE t.type = "POWER" -> [type |-> "POWER", is_on |-> t.val, tag |-> t.tag]
      [] t.type = "SPEED" -> [type |-> "SPEED", speed |-> t.val, tag |-> t.tag]
      [] t.type = "MODE" -> [type |-> "MODE", mode |-> t.val, tag |-> t.tag]

\* dequeue_and_compile serialises the empty optional of a dequeue_task() that
\* returned std::nullopt: an object without fields when no case of the switch
\* matches the indeterminate tag.
EmptyObject == [empty |-> TRUE]

\* ------------------------------------------------------------ requests
NoReq == [kind |-> "none", body |-> [none |-> TRUE]]
NoResp == [worker |-> "none", kind |-> "none", code |-> 0, error |-> "",
           body |-> [none |-> TRUE], req |-> [none |-> TRUE]]

\* The locals of a handler. appended and pushed are history only: the number of
\* tasks this request's calls of enqueue_task have pushed to the queue, and for
\* each of them its tag and its index in the request's tasks array.
NoLoc ==
    [i |-> 0, task_count |-> 0, queued_count |-> 0, array |-> <<>>,
     task |-> [none |-> TRUE], previous_state |-> FALSE, session_password |-> "",
     state |-> [none |-> TRUE], appended |-> 0, pushed |-> <<>>]

\* ------------------------------------------------------------ history
NoHist ==
    [submitted |-> 0,          \* task objects accepted into requests so far
     newsessions |-> 0,        \* newsession requests started
     enq_results |-> <<>>,     \* results of enqueue_task in lock order, while no_drain
     no_drain |-> TRUE,        \* no pop and no clear has run yet
     pushes |-> 0,             \* tasks appended to the queue so far
     cleared |-> FALSE,        \* the console's clear has run
     removed |-> 0,            \* tasks the console's clear has removed from the queue
     \* while not cleared:
     returned |-> [t \in 1..MaxTasks |-> 0],  \* per tag: copies in the arrays of completed fetches
     returned_other |-> 0,     \* elements of those arrays that are no queued task
     issued |-> {},            \* passwords returned by newsession since the last revocation
     revoked |-> {},           \* passwords cleared by setonline(false), no session minted since
     disturbed |-> [w \in Workers |-> FALSE],  \* another pop or a clear ran during w's drain
     \* while w's drain is not disturbed:
     snap |-> [w \in Workers |-> <<>>],        \* the queue when w's drain read its size
     enq_during |-> [w \in Workers |-> FALSE], \* a push ran during w's drain
     last_set |-> [none |-> TRUE]]             \* the state object of the last setstate that wrote

\* ------------------------------------------------------------ initial state
ServerPasswords == {"secret"}

\* Gateway::Gateway: the members after the constructor's initialiser list; the
\* mutexes are free, every worker of the server's pool is idle and the command
\* thread is about to test its loop condition.
\* The threads once the constructor has reached run_server: the command thread
\* at the test of its loop, the constructing thread in listen, the workers of
\* the server's pool waiting for requests.
Started ==
    [t \in Threads |-> IF t = Console THEN "con_loop"
                       ELSE IF t = Main THEN "listen" ELSE "idle"]

\* _server.listen hands a request to worker w of the pool: the server has not
\* been stopped and the worker is free.
Accepts(w) == pc[w] = "idle" /\ pc[Main] = "listen"

Init ==
    /\ backlog \in 0..MaxBacklog
    /\ password \in ServerPasswords
    /\ session_password = ""
    /\ is_online = FALSE
    /\ is_running = TRUE
    /\ state = DefaultState
    /\ tasks = <<>>
    /\ total_task_count = 0
    /\ total_processed_count = 0
    /\ readers = [m \in Mutexes |-> [t \in Threads |-> 0]]
    /\ pc = Started
    /\ req = [w \in Workers |-> NoReq]
    /\ loc = [w \in Workers |-> NoLoc]
    /\ resp = NoResp
    /\ hist = NoHist

\* ------------------------------------------------------------ std::shared_mutex
\* lock(): granted when no thread holds the mutex (exclusive holds end within
\* the step that took them, so only shared holds can be in the way).
CanLock(m) == \A t \in Threads : readers[m][t] = 0

\* lock_shared(): granted when no thread holds the mutex exclusively.
CanLockShared(m) == TRUE

\* A shared hold that is not released: lock_shared() without unlock_shared().
KeepShared(m, t) == readers' = [readers EXCEPT ![m][t] = @ + 1]

\* ------------------------------------------------------------ handler plumbing
\* The handler of worker w, serving request r, goes on at position p with locals l.
Goto(w, r, p, l) ==
    /\ pc' = [pc EXCEPT ![w] = p]
    /\ req' = [req EXCEPT ![w] = r]
    /\ loc' = [loc EXCEPT ![w] = l]
    /\ resp' = NoResp

\* An exception leaves a noexcept function, or an assertion of the JSON library
\* fails: std::terminate or abort ends the process and every thread with it.
Terminate ==
    /\ pc' = [t \in Threads |-> "terminated"]
    /\ resp' = NoResp
    /\ UNCHANGED <<req, loc>>

\* The handler of worker w returns from request r; the server sends the response
\* and the worker goes back to the pool.
Reply(w, r, code, error, body) ==
    /\ pc' = [pc EXCEPT ![w] = "idle"]
    /\ req' = [req EXCEPT ![w] = NoReq]
    /\ loc' = [loc EXCEPT ![w] = NoLoc]
    /\ resp' = [worker |-> w, kind |-> r.kind, code |-> code, error |-> error,
                body |-> body, req |-> r.body]

\* Gateway::send_error: {status: false, error: message} with the given HTTP status.
SendError(w, r, code, message) == Reply(w, r, code, message, [status |-> FALSE])

\* A request of the given kind with the given parsed body.
Request(kind, body) == [kind |-> kind, body |-> body]

\* ------------------------------------------------------------ generate_password
\* allowed_chars of Gateway::generate_password.
AllowedChars ==
    <<"a", "b", "c", "d", "e", "f", "g", "h", "i", "j", "k", "l", "m",
      "n", "o", "p", "q", "r", "s", "t", "u", "v", "w", "x", "y", "z",
      "A", "B", "C", "D", "E", "F", "G", "H", "I", "J", "K", "L", "M",
      "N", "O", "P", "Q", "R", "S", "T", "U", "V", "W", "X", "Y", "Z",
      "0", "1", "2", "3", "4", "5", "6", "7", "8", "9",
      ",", ".", "-", "_", "/", "(", ")", "#", "+", "!", "?">>

num_allowed_chars == Len(AllowedChars)

\* dist(generator): the i-th draw of a generator seeded with rnd, in
\* 0..num_allowed_chars - 1.
Draw(rnd, i) == (rnd + 7 * i) % num_allowed_chars

RECURSIVE Fill(_, _, _)
\* The loop of generate_password from index i on.
Fill(length, rnd, i) ==
    IF i >= length THEN ""
    ELSE AllowedChars[Draw(rnd, i) + 1] \o Fill(length, rnd, i + 1)

\* Gateway::generate_password(length): length characters of allowed_chars.
generate_password(length, rnd) == Fill(length, rnd, 0)

\* ------------------------------------------------------------ password checks
validate_server_password_nonempty(json) ==
    IF ~Has(json, "password") THEN FALSE
    ELSE ~(json.password = "")

\* Gateway::validate_server_password: false without a password field; otherwise
\* the comparison under the shared lock of _password_mutex.
validate_server_password(json) ==
    IF ~Has(json, "password") THEN FALSE
    ELSE ~(json.password = "" \/ json.password # password)

validate_client_password_unguarded(json) ==
    IF ~Has(json, "password") THEN FALSE
    ELSE ~(json.password # session_password)

\* Gateway::validate_client_password: false without a password field; otherwise
\* the comparison under the shared lock of _session_password_mutex.
validate_client_password(json) ==
    IF ~Has(json, "password") THEN FALSE
    ELSE ~(json.password = "" \/ session_password = ""
           \/ json.password # session_password)

\* ------------------------------------------------------------ request inputs
\* A request body that is a JSON object with the given fields.
Obj(fields) == [is_object |-> TRUE, body |-> fields]

\* A request body that parses but is no object (an array, a number, ...).
NotObject == [is_object |-> FALSE, body |-> [none |-> TRUE]]

\* A tasks field that is an array with these elements.
Array(ts) == [is_array |-> TRUE, items |-> ts]

\* The task objects of a tasks array.
NumTaskObjects(ts) == Cardinality({k \in DOMAIN ts : IsTaskObject(ts[k])})

\* The tasks array with the run's next task objects in the places of AnyTask.
Tagged(ts, base) ==
    [k \in DOMAIN ts |->
        IF ts[k] = AnyTask
        THEN TaskObject(base + Cardinality({j \in 1..k : IsTaskObject(ts[j])}))
        ELSE ts[k]]

\* ------------------------------------------------------------ the task queue
\* Workers whose dequeue_and_compile has read the size and not yet returned.
InDrain(v) == pc[v] \in {"dq", "dq_count"}

\* The history after a pop by worker w or a clear (w = Console): the drains in
\* progress on the other workers are disturbed.
Disturbed(h, w) ==
    LET hit == {v \in Workers : v # w /\ InDrain(v)}
    IN  [h EXCEPT
           !.no_drain = FALSE,
           !.enq_results = <<>>,
           !.disturbed = [v \in Workers |-> @[v] \/ v \in hit],
           !.snap = [v \in Workers |-> IF v \in hit THEN <<>> ELSE @[v]],
           !.enq_during = [v \in Workers |-> IF v \in hit THEN FALSE ELSE @[v]]]

\* Gateway::enqueue_task, the test under the lock: the task is accepted.
EnqueueAcceptsAlways(q, b) == TRUE

EnqueueAcceptsOneMore(q, b) == ~(Len(q) > b)

EnqueueAccepts(q, b) == ~(Len(q) >= b)

\* Gateway::enqueue_task, _tasks.push_back(task).
PushFront(q, t) == <<t>> \o q

PushBack(q, t) == Append(q, t)

RECURSIVE NextTask(_, _)
\* The first index >= i of the tasks array that holds an object with a type
\* (the elements before it are skipped by `continue`), 0 when there is none.
NextTask(ts, i) ==
    IF i > Len(ts) THEN 0
    ELSE IF IsTaskObject(ts[i]) THEN i
    ELSE NextTask(ts, i + 1)

EnqueueLoopReportsRequested(w, r, l, i) ==
    LET ts == r.body.tasks.items
        j == NextTask(ts, i)
    IN  IF j = 0
        THEN Reply(w, r, 200, "", [status |-> TRUE, queued |-> Len(ts)])
        ELSE Goto(w, r, "enq", [l EXCEPT !.i = j, !.task = Deserialize(ts[j])])

\* handle_enqueue's loop from element i on, with the locals l: either the next
\* call of enqueue_task, or the response after the last element.
EnqueueLoop(w, r, l, i) ==
    LET ts == r.body.tasks.items
        j == NextTask(ts, i)
    IN  IF j = 0
        THEN Reply(w, r, 200, "",
                   [status |-> l.queued_count = Len(ts), queued |-> l.queued_count])
        ELSE IF ~Has(ts[j], PayloadField(ts[j].type))
        THEN \* the const operator[] on a missing key: the process ends, or the
             \* payload is whatever was read
             \/ Terminate
             \/ Goto(w, r, "enq",
                     [l EXCEPT !.i = j,
                               !.task = [type |-> ts[j].type, val |-> "indeterminate",
                                         tag |-> 0]])
        ELSE Goto(w, r, "enq", [l EXCEPT !.i = j, !.task = Deserialize(ts[j])])

\* handle_enqueue from the parsed body to the first call of enqueue_task:
\* is_object, validate_client_password, the tasks field and its type.
StartEnqueue(w, inputs) ==
    /\ Accepts(w)
    /\ CanLockShared("session")
    /\ \E in \in inputs :
         LET n == IF Has(in.body, "tasks")
                  THEN NumTaskObjects(in.body.tasks.items) ELSE 0
             b == IF Has(in.body, "tasks")
                  THEN [in.body EXCEPT !.tasks.items = Tagged(@, hist.submitted)]
                  ELSE in.body
         IN  /\ hist.submitted + n <= MaxTasks
             /\ hist' = [hist EXCEPT !.submitted = @ + n]
             /\ IF ~in.is_object
                THEN SendError(w, Request("enqueue", b), 500, "Invalid request body type")
                ELSE IF ~validate_client_password(b)
                THEN SendError(w, Request("enqueue", b), 401, "Invalid password")
                ELSE IF ~Has(b, "tasks")
                THEN SendError(w, Request("enqueue", b), 500, "Missing tasks list")
                ELSE IF ~b.tasks.is_array
                THEN SendError(w, Request("enqueue", b), 500, "Invalid tasks list type")
                ELSE EnqueueLoop(w, Request("enqueue", b), NoLoc, 1)
    /\ UNCHANGED <<config, gateway, readers>>

\* Gateway::enqueue_task from lock() to unlock(): a full queue is left alone and
\* the call returns false; otherwise the task is appended.
EnqueueTask(w) ==
    /\ pc[w] = "enq"
    /\ CanLock("tasks")
    /\ IF EnqueueAccepts(tasks, backlog)
       THEN /\ tasks' = PushBack(tasks, Stamp(loc[w].task, hist.pushes + 1))
            /\ Goto(w, req[w], "enq_count",
                    [loc[w] EXCEPT
                       !.appended = @ + 1,
                       !.pushed = Append(@, [tag |-> hist.pushes + 1, i |-> loc[w].i])])
            /\ hist' = [hist EXCEPT
                          !.enq_results = IF hist.no_drain THEN Append(@, TRUE) ELSE @,
                          !.pushes = @ + 1,
                          !.enq_during = [v \in Workers |->
                                            @[v] \/ (InDrain(v) /\ ~hist.disturbed[v])]]
       ELSE /\ tasks' = tasks
            /\ EnqueueLoop(w, req[w], loc[w], loc[w].i + 1)
            /\ hist' = [hist EXCEPT
                          !.enq_results = IF hist.no_drain THEN Append(@, FALSE) ELSE @]
    /\ UNCHANGED <<config, session_password, is_online, is_running, state,
                   total_task_count, total_processed_count, readers>>

\* Gateway::enqueue_task after the unlock: ++_total_task_count, return true; the
\* handler counts the task and goes on with the next element.
EnqueueCount(w) ==
    /\ pc[w] = "enq_count"
    /\ total_task_count' = total_task_count + 1
    /\ EnqueueLoop(w, req[w], [loc[w] EXCEPT !.queued_count = @ + 1], loc[w].i + 1)
    /\ UNCHANGED <<config, session_password, is_online, is_running, state, tasks,
                   total_processed_count, readers, hist>>

\* handle_fetch from the parsed body to dequeue_and_compile: is_object,
\* validate_server_password.
StartFetch(w, inputs) ==
    /\ Accepts(w)
    /\ CanLockShared("password")
    /\ \E in \in inputs :
         IF ~in.is_object
         THEN SendError(w, Request("fetch", in.body), 500, "Invalid request body type")
         ELSE IF ~validate_server_password(in.body)
         THEN SendError(w, Request("fetch", in.body), 401, "Invalid password")
         ELSE Goto(w, Request("fetch", in.body), "dq_size", NoLoc)
    /\ UNCHANGED <<config, gateway, readers, hist>>

\* The history after a fetch returned this array.
Returned(h, array) ==
    LET tagged == {k \in DOMAIN array : Has(array[k], "tag")}
    IN  IF h.cleared THEN h ELSE
        [h EXCEPT
           !.returned = [t \in DOMAIN @ |->
                           @[t] + Cardinality({k \in tagged : array[k].tag = t})],
           !.returned_other = @ + Len(array) - Cardinality(tagged)]

\* dequeue_and_compile's loop after one more element was appended to the array.
DrainLoop(w, l, h) ==
    IF l.i < l.task_count
    THEN /\ Goto(w, req[w], "dq", l)
         /\ hist' = h
    ELSE /\ Reply(w, req[w], 200, "", [tasks |-> l.array])
         /\ hist' = [Returned(h, l.array) EXCEPT !.snap[w] = <<>>,
                        !.disturbed[w] = FALSE, !.enq_during[w] = FALSE]

\* dequeue_and_compile: lock_shared, task_count = _tasks.size(), unlock_shared;
\* an empty queue skips the loop.
DrainSize(w) ==
    /\ pc[w] = "dq_size"
    /\ CanLockShared("tasks")
    /\ DrainLoop(w, [loc[w] EXCEPT !.task_count = Len(tasks), !.i = 0],
                 [hist EXCEPT !.snap[w] = tasks])
    /\ UNCHANGED <<config, gateway, readers>>

\* Gateway::dequeue_task: *front, the element at _tasks.begin().
Back(q) == q[Len(q)]

Front(q) == Head(q)

\* Gateway::dequeue_task: _tasks.erase(front).
EraseFront(q) == Tail(q)

\* What serialising the dereferenced empty optional can append: nothing but an
\* empty object, or the bytes of a task this drain popped before.
Indeterminate(w) == {EmptyObject} \cup {loc[w].array[k] : k \in DOMAIN loc[w].array}

\* Gateway::dequeue_task from lock() to unlock(). An empty queue: return
\* std::nullopt, which dequeue_and_compile dereferences and serialises all the
\* same. Otherwise the front element is erased.
DequeueTask(w) ==
    /\ pc[w] = "dq"
    /\ CanLock("tasks")
    /\ IF tasks = <<>>
       THEN /\ tasks' = tasks
            /\ \E g \in Indeterminate(w) :
                  DrainLoop(w, [loc[w] EXCEPT !.array = Append(@, g), !.i = @ + 1], hist)
       ELSE /\ tasks' = EraseFront(tasks)
            /\ Goto(w, req[w], "dq_count", [loc[w] EXCEPT !.task = Front(tasks)])
            /\ hist' = Disturbed(hist, w)
    /\ UNCHANGED <<config, session_password, is_online, is_running, state,
                   total_task_count, total_processed_count, readers>>

\* dequeue_task after the unlock: ++_total_processed_count, return the task;
\* dequeue_and_compile serialises it into the array.
DequeueCount(w) ==
    /\ pc[w] = "dq_count"
    /\ total_processed_count' = total_processed_count + 1
    /\ DrainLoop(w, [loc[w] EXCEPT !.array = Append(@, Serialize(loc[w].task)),
                                   !.i = @ + 1, !.task = NoLoc.task], hist)
    /\ UNCHANGED <<config, session_password, is_online, is_running, state, tasks,
                   total_task_count, readers>>

\* ------------------------------------------------------------ client endpoints
\* handle_authenticate: {status: validate_client_password(body)} with HTTP 200;
\* a body that is no object has no password field.
Authenticate(w, inputs) ==
    /\ Accepts(w)
    /\ CanLockShared("session")
    /\ \E in \in inputs :
         Reply(w, Request("authenticate", in.body), 200, "",
               [status |-> validate_client_password(in.body)])
    /\ UNCHANGED <<config, gateway, readers, hist>>

\* handle_getstate from the parsed body to the read of the state: is_object,
\* validate_client_password.
StartGetstate(w, inputs) ==
    /\ Accepts(w)
    /\ CanLockShared("session")
    /\ \E in \in inputs :
         IF ~in.is_object
         THEN SendError(w, Request("getstate", in.body), 500, "Invalid request body type")
         ELSE IF ~validate_client_password(in.body)
         THEN SendError(w, Request("getstate", in.body), 401, "Invalid password")
         ELSE Goto(w, Request("getstate", in.body), "gs_read", NoLoc)
    /\ UNCHANGED <<config, gateway, readers, hist>>

SerializeStateSwapped(st) ==
    [accepts_commands |-> JBool(st.accepts_commands), is_on |-> JBool(st.is_on),
     target_speed |-> JNum(st.actual_speed), actual_speed |-> JNum(st.target_speed),
     mode |-> JNum(st.mode)]

\* dto::DeviceState::serialize: the five fields written to the object, the
\* mode as the number of its enumerator.
SerializeState(st) ==
    [accepts_commands |-> JBool(st.accepts_commands), is_on |-> JBool(st.is_on),
     target_speed |-> JNum(st.target_speed), actual_speed |-> JNum(st.actual_speed),
     mode |-> JNum(st.mode)]

\* handle_getstate: lock_shared, _state.serialize(res_body), unlock_shared.
GetstateRead(w) ==
    /\ pc[w] = "gs_read"
    /\ CanLockShared("state")
    /\ Goto(w, req[w], "gs_online", [loc[w] EXCEPT !.state = SerializeState(state)])
    /\ UNCHANGED <<config, gateway, readers, hist>>

\* handle_getstate: res_body["is_online"] = _is_online beside the fields of the
\* state, respond.
GetstateOnline(w) ==
    /\ pc[w] = "gs_online"
    /\ Reply(w, req[w], 200, "",
             [f \in DOMAIN loc[w].state \cup {"is_online"} |->
                IF f = "is_online" THEN is_online ELSE loc[w].state[f]])
    /\ UNCHANGED <<config, gateway, readers, hist>>

\* ------------------------------------------------------------ server endpoints
\* handle_setonline from the parsed body to the read of _is_online: is_object,
\* validate_server_password, the is_online field.
StartSetonline(w, inputs) ==
    /\ Accepts(w)
    /\ CanLockShared("password")
    /\ \E in \in inputs :
         IF ~in.is_object
         THEN SendError(w, Request("setonline", in.body), 500, "Invalid request body type")
         ELSE IF ~validate_server_password(in.body)
         THEN SendError(w, Request("setonline", in.body), 401, "Invalid password")
         ELSE IF ~Has(in.body, "is_online")
         THEN SendError(w, Request("setonline", in.body), 500, "Invalid property type")
         ELSE Goto(w, Request("setonline", in.body), "so_prev", NoLoc)
    /\ UNCHANGED <<config, gateway, readers, hist>>

new_state_online(r) == TRUE

\* handle_setonline: new_state = req_body["is_online"].
new_state(r) == r.body.is_online

ClearsSessionAlways(r) == TRUE

\* handle_setonline: if (!new_state), the session password is cleared.
ClearsSession(r) == ~new_state(r)

\* handle_setonline: previous_state = _is_online, new_state = req_body["is_online"].
SetonlinePrevious(w) ==
    /\ pc[w] = "so_prev"
    /\ Goto(w, req[w], IF ClearsSession(req[w]) THEN "so_clear" ELSE "so_store",
            [loc[w] EXCEPT !.previous_state = is_online])
    /\ UNCHANGED <<config, gateway, readers, hist>>

KeptSession == session_password

\* handle_setonline, !new_state: the value assigned to _session_password.
ResetSession == ""

SetonlineClearDropsQueue(w) ==
    /\ pc[w] = "so_clear"
    /\ CanLock("session")
    /\ session_password' = ResetSession
    /\ tasks' = <<>>
    /\ Goto(w, req[w], "so_store", loc[w])
    /\ hist' = [hist EXCEPT
                  !.issued = {},
                  !.revoked = IF session_password = "" THEN @ ELSE {session_password}]
    /\ UNCHANGED <<config, is_online, is_running, state, total_task_count,
                   total_processed_count, readers>>

\* handle_setonline, !new_state: lock, _session_password = "", unlock.
SetonlineClear(w) ==
    /\ pc[w] = "so_clear"
    /\ CanLock("session")
    /\ session_password' = ResetSession
    /\ Goto(w, req[w], "so_store", loc[w])
    /\ hist' = [hist EXCEPT
                  !.issued = {},
                  !.revoked = IF session_password = "" THEN @ ELSE {session_password}]
    /\ UNCHANGED <<config, is_online, is_running, state, tasks, total_task_count,
                   total_processed_count, readers>>

\* handle_setonline: _is_online = new_state, respond {status, previous}.
SetonlineStore(w) ==
    /\ pc[w] = "so_store"
    /\ is_online' = new_state(req[w])
    /\ Reply(w, req[w], 200, "",
             [status |-> new_state(req[w]) # loc[w].previous_state,
              previous |-> loc[w].previous_state])
    /\ UNCHANGED <<config, session_password, is_running, state, tasks,
                   total_task_count, total_processed_count, readers, hist>>

\* handle_setstate from the parsed body to the write of the state: is_object,
\* validate_server_password, the state field and its type.
StartSetstate(w, inputs) ==
    /\ Accepts(w)
    /\ CanLockShared("password")
    /\ \E in \in inputs :
         IF ~in.is_object
         THEN SendError(w, Request("setstate", in.body), 500, "Invalid request body type")
         ELSE IF ~validate_server_password(in.body)
         THEN SendError(w, Request("setstate", in.body), 401, "Invalid password")
         ELSE IF ~Has(in.body, "state")
         THEN SendError(w, Request("setstate", in.body), 500, "Missing state object")
         ELSE IF ~in.body.state.is_object
         THEN SendError(w, Request("setstate", in.body), 500, "Invalid state object type")
         ELSE Goto(w, Request("setstate", in.body), "ss_write", NoLoc)
    /\ UNCHANGED <<config, gateway, readers, hist>>

\* The fields of dto::DeviceState.
StateFields == {"accepts_commands", "is_on", "target_speed", "actual_speed", "mode"}

\* The conversion of a JSON value to bool succeeds: the value is a boolean.
ConvertsToBool(j) == IsJBool(j)

\* The conversion of a JSON value to kstd::u32 or to the enumeration succeeds.
\* A number converts; a boolean converts to an arithmetic type but not to an
\* enumeration.
ConvertsToU32(j) == IsJNum(j) \/ IsJBool(j)
ConvertsToMode(j) == IsJNum(j)

\* The kstd::u32 a JSON value converts to: a number by static_cast (the numbers
\* of the inputs are within the range of kstd::u32), true and false to 1 and 0.
ToU32(j) == IF IsJNum(j) THEN j.number ELSE IF j.boolean THEN 1 ELSE 0

\* The dto::Mode a JSON number converts to: static_cast to kstd::u8.
ToMode(j) == j.number % u8_values

\* FOX_JSON_GET finds each field in the object.
HasStateFields(obj) == \A f \in StateFields : Has(obj, f)

\* Each implicit conversion of dto::DeviceState::deserialize succeeds.
StateConverts(obj) ==
    /\ ConvertsToBool(obj.accepts_commands)
    /\ ConvertsToBool(obj.is_on)
    /\ ConvertsToU32(obj.target_speed)
    /\ ConvertsToU32(obj.actual_speed)
    /\ ConvertsToMode(obj.mode)

\* dto::DeviceState::deserialize: the five fields, each read from the object
\* and converted to the member's type.
DeserializeState(obj) ==
    [accepts_commands |-> obj.accepts_commands.boolean, is_on |-> obj.is_on.boolean,
     target_speed |-> ToU32(obj.target_speed), actual_speed |-> ToU32(obj.actual_speed),
     mode |-> ToMode(obj.mode)]

\* What the const operator[] of the JSON library yields for a key the object
\* does not hold (its precondition is broken): here the member's value again.
\* The other outcome is the end of the process.
Indeterminates(obj) ==
    LET st == SerializeState(state)
    IN  [f \in StateFields |-> IF Has(obj, f) THEN obj[f] ELSE st[f]]

\* handle_setstate: lock, _state.deserialize(state_obj), unlock, 200.
\* deserialize is noexcept: a field of a type that does not convert raises
\* inside it and the process terminates; a missing field is read all the same.
SetstateWrite(w) ==
    LET obj == req[w].body.state.body
        written(o) ==
            /\ state' = DeserializeState(o)
            /\ Reply(w, req[w], 200, "", [none |-> TRUE])
            /\ hist' = [hist EXCEPT !.last_set = obj]
        crash ==
            /\ Terminate
            /\ UNCHANGED <<state, hist>>
    IN  /\ pc[w] = "ss_write"
        /\ CanLock("state")
        /\ IF ~HasStateFields(obj)
           THEN \/ crash
                \/ IF StateConverts(Indeterminates(obj))
                   THEN written(Indeterminates(obj))
                   ELSE crash
           ELSE IF ~StateConverts(obj)
           THEN crash
           ELSE written(obj)
        /\ UNCHANGED <<config, session_password, is_online, is_running, tasks,
                       total_task_count, total_processed_count, readers>>

\* ---- the critical sections on _state_mutex, member by member
\* The members of dto::DeviceState in the order serialize and deserialize visit
\* them.
FieldOrder == <<"accepts_commands", "is_on", "target_speed", "actual_speed", "mode">>

\* The workers inside handle_setstate's lock() .. unlock() and inside
\* handle_getstate's lock_shared() .. unlock_shared().
StateWriters == {t \in Workers : pc[t] = "ss_field"}
StateReaders == {t \in Workers : pc[t] = "gs_field"}

StateLockIgnored == TRUE

\* _state_mutex.lock() is granted: no thread holds the mutex.
StateLockFree == CanLock("state") /\ StateWriters = {} /\ StateReaders = {}

StateSharedLockIgnored == TRUE

\* _state_mutex.lock_shared() is granted: no thread holds the mutex exclusively.
StateLockShareable == CanLockShared("state") /\ StateWriters = {}

\* handle_setstate: _state_mutex.lock(), for a state object whose fields all
\* convert.
SetstateLock(w) ==
    /\ pc[w] = "ss_write"
    /\ HasStateFields(req[w].body.state.body)
    /\ StateConverts(req[w].body.state.body)
    /\ StateLockFree
    /\ Goto(w, req[w], "ss_field", [loc[w] EXCEPT !.i = 0])
    /\ UNCHANGED <<config, gateway, readers, hist>>

\* dto::DeviceState::deserialize: one FOX_JSON_GET; after the last one
\* handle_setstate unlocks and answers 200.
SetstateField(w) ==
    LET obj == req[w].body.state.body
        f == FieldOrder[loc[w].i + 1]
    IN  /\ pc[w] = "ss_field"
        /\ state' = [state EXCEPT ![f] = DeserializeState(obj)[f]]
        /\ IF loc[w].i + 1 = Len(FieldOrder)
           THEN /\ Reply(w, req[w], 200, "", [none |-> TRUE])
                /\ hist' = [hist EXCEPT !.last_set = obj]
           ELSE /\ Goto(w, req[w], "ss_field", [loc[w] EXCEPT !.i = @ + 1])
                /\ hist' = hist
        /\ UNCHANGED <<config, session_password, is_online, is_running, tasks,
                       total_task_count, total_processed_count, readers>>

\* handle_getstate: _state_mutex.lock_shared().
GetstateLock(w) ==
    /\ pc[w] = "gs_read"
    /\ StateLockShareable
    /\ Goto(w, req[w], "gs_field", [loc[w] EXCEPT !.i = 0, !.state = EmptyObject])
    /\ UNCHANGED <<config, gateway, readers, hist>>

\* dto::DeviceState::serialize: one FOX_JSON_SET; after the last one
\* handle_getstate releases the shared lock.
GetstateField(w) ==
    LET f == FieldOrder[loc[w].i + 1]
        read == {FieldOrder[k] : k \in 1..(loc[w].i + 1)}
        object == [g \in read |-> IF g = f THEN SerializeState(state)[g]
                                           ELSE loc[w].state[g]]
    IN  /\ pc[w] = "gs_field"
        /\ Goto(w, req[w],
                IF loc[w].i + 1 = Len(FieldOrder) THEN "gs_online" ELSE "gs_field",
                [loc[w] EXCEPT !.i = IF @ + 1 = Len(FieldOrder) THEN 0 ELSE @ + 1,
                               !.state = object])
        /\ UNCHANGED <<config, gateway, readers, hist>>

\* The test of handle_newsession under the shared lock: a session is in progress.
SessionInProgress == ~(session_password = "")

\* handle_newsession up to validate_server_password: lock_shared and the test.
\* A session in progress: 401 and return, the shared lock still held. Otherwise
\* unlock_shared, then the body is parsed and tested with is_object.
StartNewsession(w, inputs) ==
    /\ Accepts(w)
    /\ hist.newsessions < MaxNewSessions
    /\ CanLockShared("session")
    /\ hist' = [hist EXCEPT !.newsessions = @ + 1]
    /\ \E in \in inputs :
         IF SessionInProgress
         THEN /\ SendError(w, Request("newsession", in.body), 401,
                           "Session already in progress")
              /\ KeepShared("session", w)
         ELSE /\ IF ~in.is_object
                 THEN SendError(w, Request("newsession", in.body), 500,
                                "Invalid request body type")
                 ELSE Goto(w, Request("newsession", in.body), "ns_vsp", NoLoc)
              /\ UNCHANGED readers
    /\ UNCHANGED <<config, gateway>>

\* Seeds of std::random_device the model draws from.
Seeds == {0, 1}

\* handle_newsession: kstd::usize length = 16.
default_length == 16

\* handle_newsession: the least length a request may ask for.
min_length == 10

\* kstd::usize length = req_body["length"]: a negative number converts to
\* 2^64 + length, which is above std::string::max_size() and not below 10.
AboveMaxSize(length) == length < 0

\* handle_newsession: validate_server_password, then the session password: the
\* body's new_password, or generate_password of the body's length
\* (default_length without one, 500 below min_length).
NewsessionValidate(w) ==
    LET b == req[w].body
    IN  /\ pc[w] = "ns_vsp"
        /\ CanLockShared("password")
        /\ IF ~validate_server_password(b)
           THEN SendError(w, req[w], 401, "Invalid password")
           ELSE IF Has(b, "new_password")
           THEN Goto(w, req[w], "ns_write",
                     [loc[w] EXCEPT !.session_password = b.new_password])
           ELSE IF Has(b, "length") /\ ~AboveMaxSize(b.length) /\ b.length < min_length
           THEN SendError(w, req[w], 500,
                          "Invalid password length, needs to be at least 10 characters")
           ELSE IF Has(b, "length") /\ AboveMaxSize(b.length)
           THEN \* result.resize(length) raises std::length_error inside the
                \* noexcept generate_password
                Terminate
           ELSE \E rnd \in Seeds :
                   Goto(w, req[w], "ns_write",
                        [loc[w] EXCEPT !.session_password =
                           generate_password(IF Has(b, "length") THEN b.length
                                             ELSE default_length,
                                             rnd)])
        /\ UNCHANGED <<config, gateway, readers, hist>>

\* handle_newsession: lock, _session_password = session_password, unlock, respond
\* with the password.
NewsessionWrite(w) ==
    /\ pc[w] = "ns_write"
    /\ CanLock("session")
    /\ session_password' = loc[w].session_password
    /\ Reply(w, req[w], 200, "", [password |-> loc[w].session_password])
    /\ hist' = [hist EXCEPT !.issued = @ \cup {loc[w].session_password},
                            !.revoked = {}]
    /\ UNCHANGED <<config, is_online, is_running, state, tasks, total_task_count,
                   total_processed_count, readers>>

\* ------------------------------------------------------------ the console
\* command_loop: the test of while (self->_is_running).
ConsoleLoop ==
    /\ pc[Console] = "con_loop"
    /\ pc' = [pc EXCEPT ![Console] = IF is_running THEN "con_getline" ELSE "con_stopped"]
    /\ resp' = NoResp
    /\ UNCHANGED <<config, gateway, readers, req, loc, hist>>

\* command_loop: std::getline returns a line; an empty line or an unknown
\* command goes back to the loop test, a known one is run.
ConsoleGetline(lines) ==
    /\ pc[Console] = "con_getline"
    /\ \E command \in lines :
          pc' = [pc EXCEPT ![Console] =
                   CASE command = "clear" -> "cmd_clear"
                     [] command = "exit" -> "cmd_exit"
                     [] command = "info" -> "cmd_info"
                     [] OTHER -> "con_loop"]
    /\ resp' = NoResp
    /\ UNCHANGED <<config, gateway, readers, req, loc, hist>>

ClearedButFirst(q) == IF q = <<>> THEN q ELSE <<Head(q)>>

\* _tasks.clear().
Cleared(q) == <<>>

ClearResetsCounters ==
    /\ pc[Console] = "cmd_clear"
    /\ CanLock("tasks")
    /\ tasks' = Cleared(tasks)
    /\ pc' = [pc EXCEPT ![Console] = "con_loop"]
    /\ resp' = NoResp
    /\ hist' = [Disturbed(hist, Console) EXCEPT
                  !.cleared = TRUE,
                  !.removed = @ + Len(tasks),
                  !.returned = NoHist.returned,
                  !.returned_other = 0]
    /\ total_task_count' = 0
    /\ total_processed_count' = 0
    /\ UNCHANGED <<config, session_password, is_online, is_running, state,
                   readers, req, loc>>

\* The clear command: lock, _tasks.clear(), unlock.
Clear ==
    /\ pc[Console] = "cmd_clear"
    /\ CanLock("tasks")
    /\ tasks' = Cleared(tasks)
    /\ pc' = [pc EXCEPT ![Console] = "con_loop"]
    /\ resp' = NoResp
    /\ hist' = [Disturbed(hist, Console) EXCEPT
                  !.cleared = TRUE,
                  !.removed = @ + Len(tasks),
                  !.returned = NoHist.returned,
                  !.returned_other = 0]
    /\ UNCHANGED <<config, session_password, is_online, is_running, state,
                   total_task_count, total_processed_count, readers, req, loc>>

StaysRunning == is_running

\* The exit command: the value stored to _is_running.
StopRunning == FALSE

\* The exit command: _is_running = false, _server.stop(): listen returns on the
\* constructing thread and no further request is handed to the pool.
Exit ==
    /\ pc[Console] = "cmd_exit"
    /\ is_running' = StopRunning
    /\ pc' = [pc EXCEPT ![Console] = "con_loop",
                        ![Main] = IF @ = "listen" THEN "stopped" ELSE @]
    /\ resp' = NoResp
    /\ UNCHANGED <<config, session_password, is_online, state, tasks,
                   total_task_count, total_processed_count, readers, req, loc, hist>>

\* The info command: the queue's size read under the shared lock, then the two
\* counters; all three are logged.
Info ==
    /\ pc[Console] = "cmd_info"
    /\ CanLockShared("tasks")
    /\ pc' = [pc EXCEPT ![Console] = "con_loop"]
    /\ resp' = NoResp
    /\ UNCHANGED <<config, gateway, readers, req, loc, hist>>

\* ------------------------------------------------------------ the constructing thread
\* _server.listen stops accepting without an exit command: the bind or an
\* accept() failed.
ListenFails ==
    /\ pc[Main] = "listen"
    /\ pc' = [pc EXCEPT ![Main] = "stopped"]
    /\ resp' = NoResp
    /\ UNCHANGED <<config, gateway, readers, req, loc, hist>>

\* _server.listen returns once the workers of its pool have finished; run_server
\* and the constructor return, and the gateway is later destroyed.
RunServerReturns ==
    /\ pc[Main] = "stopped"
    /\ \A w \in Workers : pc[w] = "idle"
    /\ pc' = [pc EXCEPT ![Main] = "dtor"]
    /\ resp' = NoResp
    /\ UNCHANGED <<config, gateway, readers, req, loc, hist>>

\* Gateway::~Gateway: _is_running = false.
Teardown ==
    /\ pc[Main] = "dtor"
    /\ is_running' = FALSE
    /\ pc' = [pc EXCEPT ![Main] = "join"]
    /\ resp' = NoResp
    /\ UNCHANGED <<config, session_password, is_online, state, tasks,
                   total_task_count, total_processed_count, readers, req, loc, hist>>

JoinableWhileBlocked == pc[Console] \in {"con_stopped", "con_getline"}

\* _command_thread.join() returns: command_loop has returned.
Joinable == pc[Console] = "con_stopped"

\* Gateway::~Gateway: _command_thread.join().
Join ==
    /\ pc[Main] = "join"
    /\ Joinable
    /\ pc' = [pc EXCEPT ![Main] = "destroyed"]
    /\ resp' = NoResp
    /\ UNCHANGED <<config, gateway, readers, req, loc, hist>>

\* ------------------------------------------------------------ the queue under load
\* The tasks arrays of the enqueue requests: 1 to MaxReqTasks task objects.
QueueTaskLists == {[k \in 1..n |-> AnyTask] : n \in 1..MaxReqTasks}

QueueEnqueues == {Obj([password |-> "p1", tasks |-> Array(ts)]) : ts \in QueueTaskLists}

QueueFetches == {Obj([password |-> "secret"])}

NewsessionSteps(w) ==
    \/ NewsessionValidate(w)
    \/ NewsessionWrite(w)

QueueSteps(w) ==
    \/ EnqueueTask(w)
    \/ EnqueueCount(w)
    \/ DrainSize(w)
    \/ DequeueTask(w)
    \/ DequeueCount(w)

ConsoleSteps(lines) ==
    \/ ConsoleLoop
    \/ ConsoleGetline(lines)
    \/ Clear

\* The gateway once a newsession with new_password "p1" has been served from the
\* constructor's state: a session is active, everything else as constructed.
QueueInit ==
    /\ backlog \in 0..MaxBacklog
    /\ password \in ServerPasswords
    /\ session_password = "p1"
    /\ is_online = FALSE
    /\ is_running = TRUE
    /\ state = DefaultState
    /\ tasks = <<>>
    /\ total_task_count = 0
    /\ total_processed_count = 0
    /\ readers = [m \in Mutexes |-> [t \in Threads |-> 0]]
    /\ pc = Started
    /\ req = [w \in Workers |-> NoReq]
    /\ loc = [w \in Workers |-> NoLoc]
    /\ resp = NoResp
    /\ hist = [NoHist EXCEPT !.newsessions = 1, !.issued = {"p1"}]

\* Enqueue and fetch requests on two workers during one session, with the
\* operator typing clear at the console.
QueueNext ==
    \/ \E w \in Workers :
          \/ StartEnqueue(w, QueueEnqueues)
          \/ StartFetch(w, QueueFetches)
          \/ QueueSteps(w)
    \/ ConsoleSteps({"clear"})

QueueSpec == QueueInit /\ [][QueueNext]_vars

\* ------------------------------------------------------------ sessions
\* The new_password values the device asks for: a fresh secret, the empty
\* string and the server password itself.
NewPasswords == {"p1", "", "secret"}

\* The newsession requests: a new_password, a generated password of the default
\* length, a wrong server password and a body that is no object.
SessionNewsessions ==
    {Obj([password |-> "secret", new_password |-> np]) : np \in NewPasswords}
    \cup {Obj([password |-> "secret"]),
          Obj([password |-> "wrong", new_password |-> "p1"]),
          NotObject}

\* The setonline requests of the device, and one that presents a session password.
SessionSetonlines ==
    {Obj([password |-> "secret", is_online |-> b]) : b \in BOOLEAN}
    \cup {Obj([password |-> "p1", is_online |-> FALSE])}

\* The passwords the clients present.
ClientPasswords == {"p1", "secret"}

SessionClients == {Obj([password |-> p]) : p \in ClientPasswords}

\* The authenticate requests: the clients' passwords, the empty password, an
\* object without a password and a body that is no object.
SessionAuthenticates ==
    SessionClients \cup {Obj([password |-> ""]), Obj([other |-> TRUE]), NotObject}

\* The getstate requests: the clients' passwords and the empty password.
SessionGetstates == SessionClients \cup {Obj([password |-> ""])}

\* Enqueue requests with an empty tasks array: the clients' passwords and an
\* object without a password.
SessionEnqueues ==
    {Obj([password |-> p, tasks |-> Array(<<>>)]) : p \in ClientPasswords}
    \cup {Obj([tasks |-> Array(<<>>)])}

SetonlineSteps(w) ==
    \/ SetonlinePrevious(w)
    \/ SetonlineClear(w)
    \/ SetonlineStore(w)

GetstateSteps(w) ==
    \/ GetstateRead(w)
    \/ GetstateOnline(w)

\* The device opening and closing sessions and going on and off line while the
\* clients authenticate, read the state and enqueue, on two workers, from the
\* constructor's state.
SessionNext ==
    \E w \in Workers :
       \/ StartNewsession(w, SessionNewsessions)
       \/ NewsessionSteps(w)
       \/ StartSetonline(w, SessionSetonlines)
       \/ SetonlineSteps(w)
       \/ Authenticate(w, SessionAuthenticates)
       \/ StartGetstate(w, SessionGetstates)
       \/ GetstateSteps(w)
       \/ StartEnqueue(w, SessionEnqueues)

SessionSpec == Init /\ [][SessionNext]_vars

\* ------------------------------------------------------------ the device state
\* State objects of setstate requests: two full records (one with the largest
\* speed the inputs hold), a record whose target_speed is a JSON boolean, one
\* whose mode is past the range of kstd::u8, one without the mode field and one
\* whose is_on is a string.
FullState ==
    [accepts_commands |-> JBool(TRUE), is_on |-> JBool(TRUE), target_speed |-> JNum(7),
     actual_speed |-> JNum(5), mode |-> JNum(DEFAULT)]

LargeState ==
    [accepts_commands |-> JBool(FALSE), is_on |-> JBool(TRUE), target_speed |-> JNum(0),
     actual_speed |-> JNum(2147483647), mode |-> JNum(DEFAULT)]

BoolSpeedState == [FullState EXCEPT !.target_speed = JBool(TRUE)]

WideModeState == [FullState EXCEPT !.mode = JNum(u8_values)]

NoModeState ==
    [accepts_commands |-> JBool(TRUE), is_on |-> JBool(FALSE), target_speed |-> JNum(3),
     actual_speed |-> JNum(3)]

StringState == [FullState EXCEPT !.is_on = JStr("yes")]

StateObjects ==
    {FullState, LargeState, BoolSpeedState, WideModeState, NoModeState, StringState}

\* The setstate requests: the state objects with the server password, a state
\* object with the session password, no state, a state that is no object.
StateSetstates ==
    {Obj([password |-> "secret", state |-> Obj(o)]) : o \in StateObjects}
    \cup {Obj([password |-> "p1", state |-> Obj(LargeState)]),
          Obj([password |-> "secret"]),
          Obj([password |-> "secret", state |-> NotObject])}

\* The fetch, setonline and newsession requests: each presents the session
\* password or a password that is no credential at all.
StateFetches == {Obj([password |-> p]) : p \in {"p1", "wrong"}}

StateSetonlines == {Obj([password |-> "p1", is_online |-> TRUE])}

StateNewsessions ==
    {Obj([password |-> "wrong", new_password |-> "p2"]), Obj([password |-> "p1"])}

\* The getstate requests: the session password and the server password.
StateGetstates == {Obj([password |-> p]) : p \in {"p1", "secret"}}

\* The enqueue requests: the server password, and a task object without its
\* payload.
StateEnqueues ==
    {Obj([password |-> "secret", tasks |-> Array(<<>>)]),
     Obj([password |-> "p1", tasks |-> Array(<<NoPayload>>)])}

\* The gateway as constructed, or once a newsession with new_password "p1" has
\* been served from there.
StateInit ==
    /\ backlog = MaxBacklog
    /\ password \in ServerPasswords
    /\ session_password \in {"", "p1"}
    /\ is_online = FALSE
    /\ is_running = TRUE
    /\ state = DefaultState
    /\ tasks = <<>>
    /\ total_task_count = 0
    /\ total_processed_count = 0
    /\ readers = [m \in Mutexes |-> [t \in Threads |-> 0]]
    /\ pc = Started
    /\ req = [w \in Workers |-> NoReq]
    /\ loc = [w \in Workers |-> NoLoc]
    /\ resp = NoResp
    /\ hist = IF session_password = "" THEN NoHist
              ELSE [NoHist EXCEPT !.newsessions = 1, !.issued = {"p1"}]

\* The device reporting its state and the clients reading it, on two workers,
\* beside requests that present the wrong credential to each protected endpoint.
StateNext ==
    \E w \in Workers :
       \/ StartSetstate(w, StateSetstates)
       \/ SetstateWrite(w)
       \/ StartGetstate(w, StateGetstates)
       \/ GetstateSteps(w)
       \/ StartFetch(w, StateFetches)
       \/ StartSetonline(w, StateSetonlines)
       \/ StartNewsession(w, StateNewsessions)
       \/ NewsessionValidate(w)
       \/ StartEnqueue(w, StateEnqueues)
       \/ EnqueueTask(w)
       \/ EnqueueCount(w)

StateSpec == StateInit /\ [][StateNext]_vars

\* ------------------------------------------------------------ generated passwords
\* The lengths the device asks for: the least one, a longer one, one and ten
\* below the least, and a negative one.
PasswordLengths == {min_length, min_length + 2, min_length - 1, 0, -1}

\* The newsession requests for a generated password: no length, or one of the
\* lengths.
PasswordNewsessions ==
    {Obj([password |-> "secret"])}
    \cup {Obj([password |-> "secret", length |-> n]) : n \in PasswordLengths}

\* The setonline request by which the device ends its session.
PasswordSetonlines == {Obj([password |-> "secret", is_online |-> FALSE])}

\* The device asking for generated session passwords and ending its sessions,
\* on two workers, from the constructor's state.
PasswordNext ==
    \E w \in Workers :
       \/ StartNewsession(w, PasswordNewsessions)
       \/ NewsessionSteps(w)
       \/ StartSetonline(w, PasswordSetonlines)
       \/ SetonlineSteps(w)

PasswordSpec == Init /\ [][PasswordNext]_vars

\* ------------------------------------------------------------ every operation
\* One request of each kind with the credential of its tier, a setonline in each
\* direction, and a setonline and a setstate that present the session password.
GatewayEnqueues == {Obj([password |-> "p1", tasks |-> Array(<<AnyTask>>)])}

GatewayFetches == {Obj([password |-> "secret"])}

GatewayNewsessions == {Obj([password |-> "secret", new_password |-> "p1"])}

GatewaySetonlines ==
    {Obj([password |-> "secret", is_online |-> b]) : b \in BOOLEAN}
    \cup {Obj([password |-> "p1", is_online |-> TRUE])}

GatewaySetstates ==
    {Obj([password |-> "secret", state |-> Obj(FullState)]),
     Obj([password |-> "p1", state |-> Obj(LargeState)])}

GatewayClients == {Obj([password |-> "p1"])}

\* The lines the operator types.
GatewayLines == {"clear", "exit", "info", "help", ""}

\* The gateway as constructed, with the largest backlog.
GatewayInit == Init /\ backlog = MaxBacklog

\* The worker that serves the requests of GatewaySpec.
GatewayWorkers == {"w1"}

\* Every endpoint served, one request at a time, while the operator types
\* commands at the console.
GatewayNext ==
    \/ \E w \in GatewayWorkers :
          \/ StartEnqueue(w, GatewayEnqueues)
          \/ StartFetch(w, GatewayFetches)
          \/ QueueSteps(w)
          \/ StartNewsession(w, GatewayNewsessions)
          \/ NewsessionSteps(w)
          \/ StartSetonline(w, GatewaySetonlines)
          \/ SetonlineSteps(w)
          \/ StartSetstate(w, GatewaySetstates)
          \/ SetstateWrite(w)
          \/ StartGetstate(w, GatewayClients)
          \/ GetstateSteps(w)
          \/ Authenticate(w, GatewayClients)
    \/ ConsoleSteps(GatewayLines)
    \/ Exit
    \/ Info

GatewaySpec == GatewayInit /\ [][GatewayNext]_vars

\* ------------------------------------------------------------ the console
\* The operator typing commands, exit among them, while one worker serves
\* enqueue and fetch requests during a session. The command thread is scheduled
\* again and again: the test of its loop is taken whenever it stays enabled.
ConsoleNext ==
    \/ \E w \in GatewayWorkers :
          \/ StartEnqueue(w, QueueEnqueues)
          \/ StartFetch(w, QueueFetches)
          \/ QueueSteps(w)
    \/ ConsoleSteps(GatewayLines)
    \/ Exit
    \/ Info

ConsoleSpec == QueueInit /\ [][ConsoleNext]_vars /\ WF_vars(ConsoleLoop)

\* ------------------------------------------------------------ readers and writers of the state
\* The setstate requests: two full records that differ in three members.
TearSetstates == {Obj([password |-> "secret", state |-> Obj(o)]) : o \in {FullState, LargeState}}

TearGetstates == {Obj([password |-> "p1"])}

\* The device reporting its state while a client reads it, on two workers,
\* during a session, each critical section on the state taken member by member.
TearNext ==
    \E w \in Workers :
       \/ StartSetstate(w, TearSetstates)
       \/ SetstateLock(w)
       \/ SetstateField(w)
       \/ StartGetstate(w, TearGetstates)
       \/ GetstateLock(w)
       \/ GetstateField(w)
       \/ GetstateOnline(w)

TearSpec == QueueInit /\ [][TearNext]_vars

\* ------------------------------------------------------------ teardown
\* The gateway from construction to destruction: one worker serves enqueue and
\* fetch requests during a session and the operator types commands until the
\* server stops, by exit or by a failure of listen; then the destructor runs.
TeardownNext ==
    \/ \E w \in GatewayWorkers :
          \/ StartEnqueue(w, QueueEnqueues)
          \/ StartFetch(w, QueueFetches)
          \/ QueueSteps(w)
    \/ ConsoleSteps(GatewayLines)
    \/ Exit
    \/ Info
    \/ ListenFails
    \/ RunServerReturns
    \/ Teardown
    \/ Join

TeardownSpec == QueueInit /\ [][TeardownNext]_vars

\* ------------------------------------------------------------ revocation
RevokeSetonlines == {Obj([password |-> "secret", is_online |-> FALSE])}

\* A session is active and the backlog is the largest.
RevokeInit == QueueInit /\ backlog = MaxBacklog

\* Clients enqueueing during a session while the device revokes the session and
\* opens the next one, on two workers, with the largest backlog.
RevokeNext ==
    \E w \in Workers :
       \/ StartEnqueue(w, QueueEnqueues)
       \/ EnqueueTask(w)
       \/ EnqueueCount(w)
       \/ StartSetonline(w, RevokeSetonlines)
       \/ SetonlineSteps(w)
       \/ StartNewsession(w, GatewayNewsessions)
       \/ NewsessionSteps(w)

RevokeSpec == RevokeInit /\ [][RevokeNext]_vars

\* ------------------------------------------------------------ the configured password
\* The passwords the device presents.
DevicePasswords == {"", "secret", "wrong"}

\* The gateway as constructed, with a server password that is empty or not.
CredentialInit ==
    /\ backlog = MaxBacklog
    /\ password \in {"", "secret"}
    /\ session_password = ""
    /\ is_online = FALSE
    /\ is_running = TRUE
    /\ state = DefaultState
    /\ tasks = <<>>
    /\ total_task_count = 0
    /\ total_processed_count = 0
    /\ readers = [m \in Mutexes |-> [t \in Threads |-> 0]]
    /\ pc = Started
    /\ req = [w \in Workers |-> NoReq]
    /\ loc = [w \in Workers |-> NoLoc]
    /\ resp = NoResp
    /\ hist = NoHist

\* The device's requests to its four endpoints with each of its passwords, on
\* two workers.
CredentialNext ==
    \E w \in Workers :
       \/ StartFetch(w, {Obj([password |-> p]) : p \in DevicePasswords})
       \/ DrainSize(w)
       \/ StartSetonline(w, {Obj([password |-> p, is_online |-> TRUE]) :
                                p \in DevicePasswords})
       \/ SetonlinePrevious(w)
       \/ SetonlineStore(w)
       \/ StartSetstate(w, {Obj([password |-> p, state |-> Obj(FullState)]) :
                               p \in DevicePasswords})
       \/ SetstateWrite(w)
       \/ StartNewsession(w, {Obj([password |-> p, new_password |-> "p1"]) :
                                 p \in DevicePasswords})
       \/ NewsessionSteps(w)

CredentialSpec == CredentialInit /\ [][CredentialNext]_vars

\* ------------------------------------------------------------ the order of a request
\* Tasks arrays with elements that are no task objects among the task objects.
OrderTaskLists ==
    {<<AnyTask>>, <<AnyTask, AnyTask>>, <<AnyTask, Junk, AnyTask>>, <<Junk, AnyTask>>,
     <<Junk>>}

OrderEnqueues == {Obj([password |-> "p1", tasks |-> Array(ts)]) : ts \in OrderTaskLists}

\* Enqueue requests on two workers during one session, with the operator typing
\* clear at the console.
OrderNext ==
    \/ \E w \in Workers :
          \/ StartEnqueue(w, OrderEnqueues)
          \/ EnqueueTask(w)
          \/ EnqueueCount(w)
    \/ ConsoleSteps({"clear"})

OrderSpec == QueueInit /\ [][OrderNext]_vars

\* ============================================================ properties
\* ------------------------------------------------------------ the queue (QueueSpec)
\* The step of worker w that runs enqueue_task's critical section.
EnqueueTaskStep(w) ==
    pc[w] = "enq" /\ (pc'[w] # "enq" \/ loc'[w].i # loc[w].i)

\* The step of worker w after a successful enqueue_task's critical section.
EnqueueCountStep(w) == pc[w] = "enq_count" /\ pc'[w] # "enq_count"

\* The step of worker w that runs dequeue_task's critical section.
DequeueTaskStep(w) ==
    pc[w] = "dq" /\ (pc'[w] # "dq" \/ loc'[w].i # loc[w].i)

\* The step of worker w in which its dequeue_and_compile returns.
DrainReturns(w) ==
    pc[w] \in {"dq_size", "dq", "dq_count"} /\ pc'[w] = "idle"

\* C1: in every reachable state, under any interleaving of enqueue, fetch and
\* clear, the queue holds at most backlog tasks.
C1_QueueWithinBacklog == Len(tasks) <= backlog

\* The queue is full at the largest backlog while a fetch that read its size is
\* about to pop and an enqueue_task is about to inspect the queue.
C1_Witness ==
    /\ backlog = MaxBacklog
    /\ Len(tasks) = backlog
    /\ \E w, v \in Workers : pc[w] = "enq" /\ pc[v] = "dq" /\ loc[v].task_count = backlog

\* C2: enqueue_task returns false exactly when the queue holds backlog tasks or
\* more at the moment of inspection, and then changes nothing; when it returns
\* true the task has been appended behind the tasks that were queued, and
\* total_task_count grows by exactly one for the call.
C2_EnqueueTaskContract ==
    [][\A w \in Workers :
         /\ EnqueueTaskStep(w) =>
               /\ (pc'[w] # "enq_count") <=> (Len(tasks) >= backlog)
               /\ pc'[w] = "enq_count" =>
                     /\ Len(tasks') = Len(tasks) + 1
                     /\ SubSeq(tasks', 1, Len(tasks)) = tasks
                     /\ Stamp(tasks'[Len(tasks')], 0) = loc[w].task
               /\ pc'[w] # "enq_count" => tasks' = tasks
               /\ total_task_count' = total_task_count
         /\ EnqueueCountStep(w) =>
               /\ total_task_count' = total_task_count + 1
               /\ tasks' = tasks]_vars

\* An enqueue_task has just appended its task behind a queued one and is about
\* to count it.
C2_Witness ==
    \E w \in Workers :
       /\ pc[w] = "enq_count"
       /\ Len(tasks) >= 2
       /\ Stamp(tasks[Len(tasks)], 0) = loc[w].task
       /\ Stamp(tasks[1], 0) # loc[w].task

\* The enqueue_task history of a queue that was never drained or cleared:
\* the k-th call succeeded exactly when k <= backlog.
FirstBacklogSucceed ==
    hist.no_drain =>
       /\ \A k \in DOMAIN hist.enq_results : hist.enq_results[k] = (k <= backlog)
       /\ Len(hist.enq_results) > backlog => Len(tasks) = backlog

\* C3: for every backlog b >= 0, starting from an empty queue with no drain or
\* clear, exactly the first b calls of enqueue_task succeed; the (b+1)-th
\* returns false and leaves the queue's contents and length and both lifetime
\* counters unchanged.
C3_ExactlyBacklogSucceed ==
    /\ []FirstBacklogSucceed
    /\ [][\A w \in Workers :
            (EnqueueTaskStep(w) /\ hist.no_drain /\ Len(hist.enq_results) >= backlog) =>
               /\ hist'.enq_results = Append(hist.enq_results, FALSE)
               /\ tasks' = tasks
               /\ total_task_count' = total_task_count
               /\ total_processed_count' = total_processed_count]_vars

\* A queue of the largest backlog, never drained or cleared, has refused its
\* (backlog+1)-th task and the accepted ones have all been counted.
C3_Witness ==
    /\ backlog = MaxBacklog
    /\ hist.no_drain
    /\ Len(hist.enq_results) = backlog + 1
    /\ total_task_count = backlog

\* C4: a fetch that runs with no other fetch and no clear in progress returns
\* the tasks that were in the queue when it started (when it read the size),
\* in the order they were enqueued; if no enqueue ran during it either, the
\* queue is empty when it returns.
C4_FetchReturnsQueueInOrder ==
    [][\A w \in Workers :
         (DrainReturns(w) /\ ~hist.disturbed[w]) =>
            /\ resp'.worker = w /\ resp'.kind = "fetch" /\ resp'.code = 200
            /\ resp'.body.tasks = [k \in DOMAIN hist.snap[w] |-> Serialize(hist.snap[w][k])]
            /\ \A j, k \in DOMAIN resp'.body.tasks :
                  j < k => resp'.body.tasks[j].tag < resp'.body.tasks[k].tag
            /\ ~hist.enq_during[w] => tasks' = <<>>]_vars

\* A fetch that found two tasks has popped both, undisturbed by any other fetch
\* or clear, and is about to return them.
C4_Witness ==
    \E w \in Workers :
       /\ pc[w] = "dq_count"
       /\ loc[w].task_count = 2
       /\ loc[w].i = 1
       /\ ~hist.disturbed[w]
       /\ ~hist.enq_during[w]

\* C5: every pop step of a drain finds a task in the queue: dequeue_and_compile
\* never consumes the empty result of dequeue_task, so it never returns more
\* elements than it removed.
C5_PopFindsTask ==
    [][\A w \in Workers : DequeueTaskStep(w) => tasks # <<>>]_vars

\* The elements of the arrays of the fetches, completed or in progress, that
\* are the task with this tag.
Copies(tag) ==
    hist.returned[tag]
    + Cardinality({<<w, k>> \in Workers \X (1..MaxTasks) :
                     /\ k \in DOMAIN loc[w].array
                     /\ Has(loc[w].array[k], "tag")
                     /\ loc[w].array[k].tag = tag})
    + Cardinality({w \in Workers : pc[w] = "dq_count" /\ loc[w].task.tag = tag})

\* The places of the queue that hold the task with this tag.
Queued(tag) == Cardinality({k \in DOMAIN tasks : tasks[k].tag = tag})

\* C6: in an execution without clear, fetches and enqueues running
\* concurrently, every task that was enqueued is either still in the queue or
\* in the array of exactly one fetch, never both and never twice, and no fetch
\* returns an element that was never enqueued.
C6_NoTaskDuplicatedOrLost ==
    ~hist.cleared =>
       /\ \A tag \in 1..hist.pushes : Queued(tag) + Copies(tag) = 1
       /\ hist.returned_other = 0
       /\ \A w \in Workers : \A k \in DOMAIN loc[w].array : Has(loc[w].array[k], "tag")

\* ------------------------------------------------------------ sessions (SessionSpec)
\* C7: a newsession that presents the valid server password while an earlier
\* newsession has returned success, whatever the form of that earlier request,
\* and no setonline(false) has run since, is refused with 401 "Session already
\* in progress".
C7_SecondNewsessionRefused ==
    [][\A w \in Workers :
         (pc[w] = "idle" /\ hist.issued # {}) =>
            /\ ~(req'[w].kind = "newsession" /\ validate_server_password(req'[w].body))
            /\ (resp'.worker = w /\ resp'.kind = "newsession"
                   /\ validate_server_password(resp'.req)) =>
                  (resp'.code = 401 /\ resp'.error = "Session already in progress")]_vars

\* C8: every password a newsession has returned since the last setonline(false)
\* (the empty one apart, which is never accepted) is still accepted by
\* validate_client_password: nothing but setonline(false), and no concurrent
\* newsession, clears or replaces the session password.
C8_IssuedPasswordStaysValid ==
    \A P \in hist.issued : P # "" => validate_client_password([password |-> P])

\* C9: once setonline(false) has cleared the session, and until a newsession
\* mints a new one, an enqueue or getstate that starts and presents the
\* password that was valid before is rejected with 401.
C9_RevokedPasswordRejected ==
    [][\A w \in Workers :
         (pc[w] = "idle" /\ hist.revoked # {}) =>
            /\ (req'[w].kind \in {"enqueue", "getstate"}) =>
                  req'[w].body.password \notin hist.revoked
            /\ (resp'.worker = w /\ resp'.kind \in {"enqueue", "getstate"}
                   /\ Has(resp'.req, "password")
                   /\ resp'.req.password \in hist.revoked) =>
                  (resp'.code = 401 /\ resp'.error = "Invalid password")]_vars

\* The setonline(false) that closed the session "p1" has returned, the gateway
\* is off line, and an enqueue presenting "p1" has just been answered 401.
C9_Witness ==
    /\ hist.revoked = {"p1"}
    /\ ~is_online
    /\ \A w \in Workers : pc[w] = "idle"
    /\ resp.kind = "enqueue"
    /\ Has(resp.req, "password") /\ resp.req.password = "p1"
    /\ resp.code = 401

\* C10: in every reachable state the server password is not accepted by
\* validate_client_password and the session password is not accepted by
\* validate_server_password.
C10_TiersNeverInterchangeable ==
    /\ ~validate_client_password([password |-> password])
    /\ ~validate_server_password([password |-> session_password])

\* The step of worker w in which its setonline request with this new state
\* sets the flag and returns.
SetonlineReturns(w, online) ==
    /\ pc[w] = "so_store"
    /\ pc'[w] = "idle"
    /\ req[w].body.is_online = online

C12_NeverOfflineWithSession == ~(~is_online /\ session_password # "")

\* C12, as the program has it: a non-empty session password is one that a
\* newsession has stored since the last setonline(false) cleared the session,
\* whatever the online flag; newsession does not look at the flag, so Offline
\* with a session is a fourth state of the relationship.
C12_SessionIsIssued ==
    session_password # "" => session_password \in hist.issued

\* The gateway is off line with the session "p1" active and nothing in progress.
C12_Witness ==
    /\ ~is_online
    /\ session_password = "p1"
    /\ hist.issued = {"p1"}
    /\ \A w \in Workers : pc[w] = "idle"

\* C13: a setonline(true) with the valid server password sets is_online to
\* true and leaves the session password (and everything but the flag) as it
\* was in each of its steps; when the gateway is on line already it changes
\* nothing.
C13_SetonlineTrueKeepsSession ==
    [][\A w \in Workers :
         (req[w].kind = "setonline" /\ req[w].body.is_online /\ pc'[w] # pc[w]) =>
            /\ session_password' = session_password
            /\ <<state, tasks, total_task_count, total_processed_count>>'
                  = <<state, tasks, total_task_count, total_processed_count>>
            /\ pc[w] = "so_prev" => (pc'[w] = "so_store" /\ is_online' = is_online)
            /\ SetonlineReturns(w, TRUE) =>
                  /\ resp'.code = 200
                  /\ is_online' = TRUE
                  /\ is_online => UNCHANGED gateway]_vars

\* A setonline(true) has returned while the gateway was on line already with
\* the session "p1" active: the session is still there.
C13_Witness ==
    /\ resp.kind = "setonline"
    /\ resp.req.is_online = TRUE
    /\ resp.body.previous = TRUE
    /\ is_online
    /\ session_password = "p1"

C15_MintedSessionIsActive ==
    (resp.kind = "newsession" /\ resp.code = 200) =>
       /\ session_password = resp.body.password
       /\ validate_client_password([password |-> resp.body.password])
       /\ SessionInProgress

\* C18: a handler that has returned holds none of the four locks.
C18_HandlersReleaseLocks ==
    \A w \in Workers : pc[w] = "idle" => \A m \in Mutexes : readers[m][w] = 0

\* A request of worker w waits for a lock that only handlers that have
\* returned hold: nothing will ever release it.
BlockedForever(w) ==
    /\ \/ pc[w] \in {"so_clear", "ns_write"} /\ ~CanLock("session")
       \/ pc[w] \in {"enq", "dq"} /\ ~CanLock("tasks")
       \/ pc[w] = "ss_write" /\ ~CanLock("state")
    /\ \A m \in Mutexes : \A v \in Workers : readers[m][v] > 0 => pc[v] = "idle"

\* C19: every request that has started can go on to its response: no
\* setonline(false) and no newsession (and no other request) waits for a lock
\* that will never be released.
C19_NoRequestBlockedForever ==
    \A w \in Workers : ~BlockedForever(w)

\* ------------------------------------------------------------ the device state (StateSpec)
\* A state object that is a full state record: the five fields, the flags
\* booleans, the speeds numbers of kstd::u32, the mode a number of kstd::u8.
IsStateRecord(obj) ==
    /\ HasStateFields(obj)
    /\ IsJBool(obj.accepts_commands)
    /\ IsJBool(obj.is_on)
    /\ IsJNum(obj.target_speed) /\ obj.target_speed.number >= 0
    /\ IsJNum(obj.actual_speed) /\ obj.actual_speed.number >= 0
    /\ IsJNum(obj.mode) /\ obj.mode.number \in 0..(u8_values - 1)

\* C16: a getstate that reads the state after a setstate wrote a full state
\* record, with no setstate writing in between, reads exactly the five fields
\* that were set, and its response carries the five fields it read beside
\* is_online, with status 200.
C16_GetstateReturnsWhatWasSet ==
    [][\A w \in Workers :
         /\ (pc[w] = "gs_read" /\ pc'[w] = "gs_online" /\ IsStateRecord(hist.last_set))
               => loc'[w].state = hist.last_set
         /\ (pc[w] = "gs_online" /\ pc'[w] = "idle")
               => /\ resp'.code = 200
                  /\ DOMAIN resp'.body = StateFields \cup {"is_online"}
                  /\ \A f \in StateFields : resp'.body[f] = loc[w].state[f]]_vars

\* A getstate answered with the record of the largest speed, set just before.
C16_Witness ==
    /\ resp.kind = "getstate" /\ resp.code = 200
    /\ hist.last_set = LargeState
    /\ \A f \in StateFields : resp.body[f] = LargeState[f]

\* The endpoints of the two credential tiers.
ServerTier == {"fetch", "setstate", "setonline", "newsession"}
ClientTier == {"getstate", "enqueue"}

\* The request presents a password that is not the credential of its tier.
Mismatched(r) ==
    /\ Has(r.body, "password")
    /\ \/ r.kind \in ServerTier /\ r.body.password # password
       \/ r.kind \in ClientTier /\ r.body.password # session_password

\* C17: a request to a protected endpoint whose password is not its tier's
\* credential is answered 401, gets no further in its handler than the password
\* check, and no step of its handling changes the queue, the device state, the
\* online flag, the session password or the counters.
C17_MismatchIsRejectedWithoutEffect ==
    [][\A w \in Workers :
         LET r == IF resp'.worker = w THEN [kind |-> resp'.kind, body |-> resp'.req]
                  ELSE req'[w]
         IN  ((resp'.worker = w \/ pc'[w] \notin {pc[w], "terminated"}) /\ Mismatched(r))
             => /\ gateway' = gateway
                /\ resp'.worker = w => resp'.code = 401
                /\ resp'.worker # w => pc'[w] = "ns_vsp"]_vars

\* A newsession with a wrong server password, refused by the password check
\* while no session is active.
C17_Witness ==
    /\ resp.kind = "newsession" /\ resp.code = 401 /\ resp.error = "Invalid password"
    /\ session_password = ""
    /\ Mismatched([kind |-> resp.kind, body |-> resp.req])

\* C20: no request ends the process: every thread of the gateway keeps running.
C20_ProcessKeepsRunning == \A t \in Threads : pc[t] # "terminated"

\* ------------------------------------------------------------ malformed input
\* The field a route requires beside the password.
RequiredField(kind) ==
    CASE kind = "enqueue" -> "tasks"
      [] kind = "setstate" -> "state"
      [] kind = "setonline" -> "is_online"
      [] OTHER -> "password"

\* The request is malformed: its body is no object, or it carries the valid
\* credential of its tier and lacks the field its route requires.
Malformed(r) ==
    /\ r.kind \in ServerTier \cup ClientTier
    /\ \/ Has(r.body, "none")
       \/ /\ IF r.kind \in ServerTier THEN validate_server_password(r.body)
                                       ELSE validate_client_password(r.body)
          /\ ~Has(r.body, RequiredField(r.kind))

\* C21: a malformed request to any route but authenticate is answered 500,
\* whatever the session and the online flag are, and its handling changes
\* neither the gateway's data nor the locks held.
C21_MalformedInputIs500 ==
    [][\A w \in Workers :
         (resp'.worker = w /\ Malformed([kind |-> resp'.kind, body |-> resp'.req]))
         => /\ resp'.code = 500
            /\ gateway' = gateway
            /\ readers' = readers]_vars

\* ------------------------------------------------------------ enqueue's response (QueueSpec)
\* C22: every enqueue request that reaches its loop is answered 200, also when
\* the queue had fewer free slots than the request has tasks; queued is the
\* number of its tasks that were appended to the queue, and status is true
\* exactly when that is every element of the tasks array.
C22_PartialEnqueueIsReported ==
    [][\A w \in Workers :
         (resp'.worker = w /\ resp'.kind = "enqueue"
            /\ validate_client_password(resp'.req) /\ Has(resp'.req, "tasks"))
         => /\ resp'.code = 200
            /\ resp'.body.queued = loc[w].appended
            /\ resp'.body.status <=> (loc[w].appended = Len(resp'.req.tasks.items))]_vars

\* An enqueue of MaxReqTasks tasks answered 200 with fewer of them queued.
C22_Witness ==
    /\ resp.kind = "enqueue" /\ resp.code = 200
    /\ Len(resp.req.tasks.items) = MaxReqTasks
    /\ resp.body.queued \in 1..(MaxReqTasks - 1)
    /\ resp.body.status = FALSE

\* ------------------------------------------------------------ generated passwords (PasswordSpec)
\* The characters of allowed_chars.
Alphabet == {AllowedChars[k] : k \in 1..Len(AllowedChars)}

\* C23: a newsession with the valid server password and no new_password is
\* answered 500 and leaves the session password as it was when it asks for a
\* length below 10; otherwise it issues a password of the length asked for (16
\* without one) whose characters all belong to the allowed alphabet.
C23_GeneratedPasswordContract ==
    [][\A w \in Workers :
         LET b == req[w].body
             asked == IF Has(b, "length") THEN b.length ELSE default_length
         IN  /\ (/\ pc[w] = "ns_vsp" /\ pc'[w] # "ns_vsp"
                 /\ validate_server_password(b) /\ ~Has(b, "new_password"))
                => IF asked < min_length
                   THEN /\ resp'.worker = w /\ resp'.code = 500
                        /\ session_password' = session_password
                   ELSE /\ pc'[w] = "ns_write"
                        /\ Len(loc'[w].session_password) = asked
                        /\ \A i \in 1..asked :
                              SubSeq(loc'[w].session_password, i, i) \in Alphabet
             /\ (pc[w] = "ns_write" /\ pc'[w] = "idle")
                 => /\ resp'.worker = w /\ resp'.code = 200
                    /\ resp'.body.password = loc[w].session_password]_vars

\* ------------------------------------------------------------ setonline's response (SessionSpec)
\* C24: the response of a successful setonline reports as previous the value the
\* online flag had immediately before the call stored its own, and status true
\* exactly when that store changed the flag, also when setonline requests run
\* concurrently.
C24_SetonlineReportsTheChange ==
    [][\A w \in Workers :
         (pc[w] = "so_store" /\ pc'[w] = "idle") =>
            /\ resp'.worker = w /\ resp'.code = 200
            /\ resp'.body.previous = is_online
            /\ resp'.body.status = (is_online' # is_online)]_vars

\* ------------------------------------------------------------ frames (GatewaySpec)
\* C25: no step of any operation lowers total_task_count or
\* total_processed_count; total_processed_count grows by one exactly in the step
\* that counts a pop, every pop of a drain that removed a task is counted that
\* way, and every counted pop removed one task.
C25_CountersOnlyGrow ==
    [][/\ total_task_count' >= total_task_count
       /\ total_processed_count' =
             total_processed_count
             + Cardinality({w \in Workers : pc[w] = "dq_count" /\ pc'[w] # "dq_count"})
       /\ \A w \in Workers :
             /\ (DequeueTaskStep(w) /\ tasks' # tasks) => pc'[w] = "dq_count"
             /\ (pc[w] # "dq_count" /\ pc'[w] = "dq_count")
                   => Len(tasks') = Len(tasks) - 1]_vars

\* Both counters are positive after the operator cleared a queue that still held
\* a task, and a drain has counted a pop.
C25_Witness ==
    /\ hist.cleared /\ tasks = <<>>
    /\ total_processed_count >= 1
    /\ total_task_count > total_processed_count
    /\ \A t \in Threads : pc[t] \in {"idle", "con_loop", "listen"}

\* C27: the online flag changes only in the store of a setonline request that
\* presented the valid server password, and becomes the value that request
\* asked for; no other request and no console command changes it.
C27_OnlyValidSetonlineSetsFlag ==
    [][is_online' # is_online =>
         \E w \in Workers :
            /\ pc[w] = "so_store" /\ pc'[w] = "idle"
            /\ req[w].kind = "setonline"
            /\ Has(req[w].body, "password") /\ req[w].body.password = password
            /\ is_online' = req[w].body.is_online]_vars

\* The device has just gone online with the server password.
C27_Witness ==
    /\ is_online
    /\ resp.kind = "setonline" /\ resp.code = 200 /\ resp.body.status
    /\ resp.req.password = password

\* The record of a DeviceState whose members are all zero.
ZeroState ==
    [accepts_commands |-> FALSE, is_on |-> FALSE, target_speed |-> 0,
     actual_speed |-> 0, mode |-> 0]

\* C28: the DeviceState starts with zero values and changes only in the write of
\* a setstate request that presented the valid server password; every other
\* step leaves it as it is.
C28_OnlyValidSetstateWritesState ==
    /\ state = ZeroState
    /\ [][state' # state =>
            \E w \in Workers :
               /\ pc[w] = "ss_write" /\ pc'[w] = "idle"
               /\ req[w].kind = "setstate"
               /\ Has(req[w].body, "password") /\ req[w].body.password = password]_vars

\* The device has just reported a state with the server password.
C28_Witness ==
    /\ state # ZeroState
    /\ resp.kind = "setstate" /\ resp.code = 200
    /\ resp.req.password = password

\* ------------------------------------------------------------ the console (QueueSpec, ConsoleSpec)
\* C29: the step in which the clear command runs leaves the queue empty and
\* changes neither counter, nor the DeviceState, the online flag, the running
\* flag, the credentials or the backlog.
C29_ClearEmptiesQueueOnly ==
    [][(pc[Console] = "cmd_clear" /\ pc'[Console] # "cmd_clear") =>
         /\ tasks' = <<>>
         /\ UNCHANGED <<total_task_count, total_processed_count, state, is_online,
                        is_running, password, session_password, backlog>>]_vars

\* The operator has cleared a queue that held a task no drain had popped.
C29_Witness ==
    /\ hist.cleared /\ tasks = <<>>
    /\ pc[Console] = "con_loop"
    /\ \A w \in Workers : pc[w] = "idle"
    /\ total_task_count = MaxBacklog /\ total_processed_count = 0

\* C30: the exit command stores false to the running flag, the flag then stays
\* false, and the command thread reads no further line: from the test of its
\* loop it leaves the loop, and it does leave it.
C30_ExitStopsTheConsole ==
    /\ [][/\ (pc[Console] = "cmd_exit" /\ pc'[Console] # "cmd_exit")
              => (~is_running' /\ pc'[Console] = "con_loop")
          /\ ~is_running => ~is_running'
          /\ ~is_running => pc'[Console] \in {"con_loop", "con_stopped"}
          /\ pc[Console] = "con_stopped" => pc'[Console] = "con_stopped"]_vars
    /\ (~is_running ~> pc[Console] = "con_stopped")

\* The command thread has left its loop after an exit.
C30_Witness == ~is_running /\ pc[Console] = "con_stopped" /\ pc[Main] = "stopped"

\* ------------------------------------------------------------ readers and writers (TearSpec)
\* The records a reader may see: the initial one and the ones the setstate
\* requests carry.
WholeRecords == {SerializeState(ZeroState), FullState, LargeState}

\* C26: the five members a getstate has read when it releases the shared lock,
\* and the five it returns, are those of one record: the initial one or the one
\* of a single setstate request, never members of two.
C26_NoTornRead ==
    [][\A w \in Workers :
         /\ (pc[w] = "gs_field" /\ pc'[w] = "gs_online")
               => loc'[w].state \in WholeRecords
         /\ (pc[w] = "gs_online" /\ pc'[w] = "idle")
               => \E o \in WholeRecords : \A f \in StateFields : resp'.body[f] = o[f]]_vars

\* A reader holds one whole record while a writer is half way through writing
\* the other.
C26_Witness ==
    \E w, v \in Workers :
       /\ pc[w] = "gs_online" /\ loc[w].state = LargeState
       /\ pc[v] = "ss_field" /\ loc[v].i = 2
       /\ req[v].body.state.body = FullState

\* ------------------------------------------------------------ teardown (TeardownSpec)
\* C31: once the destructor has stored false to the running flag while the
\* command thread is blocked in getline, the command thread stays blocked until
\* a line arrives, and the destructor's join does not return before the command
\* thread has left its loop: it stays in join for as long as no line arrives.
C31_TeardownWaitsForInput ==
    [][/\ (pc[Main] = "join" /\ pc[Console] = "con_getline")
             => \/ pc'[Main] = "join" /\ pc'[Console] = "con_getline"
                \/ pc'[Main] = "join" /\ pc'[Console] \in {"con_loop", "cmd_clear",
                                                           "cmd_exit", "cmd_info"}
       /\ (pc[Main] = "join" /\ pc'[Main] # "join")
             => pc[Console] = "con_stopped" /\ pc'[Main] = "destroyed"
       /\ (pc[Main] = "dtor" /\ pc'[Main] # "dtor") => ~is_running']_vars

\* The destructor waits in join with the running flag false while the command
\* thread is blocked in getline.
C31_Witness ==
    /\ pc[Main] = "join" /\ pc[Console] = "con_getline" /\ ~is_running

\* ------------------------------------------------------------ revocation (RevokeSpec)
\* A setonline(false) has cleared the session and answered, and no newsession
\* has stored a session password since.
Revoked ==
    /\ session_password = ""
    /\ hist.revoked # {}
    /\ \A w \in Workers : pc[w] # "so_store"

\* C32: once a setonline(false) with the valid server password has completed, no
\* task is appended to the queue until a newsession stores a session password,
\* also by an enqueue request that passed its password check before.
C32_NoAppendAfterRevocation ==
    [][Revoked => hist.pushes' = hist.pushes]_vars

\* ------------------------------------------------------------ unauthenticated newsession (SessionSpec)
\* C33: a newsession request whose password is not the server password is
\* answered 401 "Invalid password", with or without an active session, and no
\* step of its handling changes what a later request depends on: the gateway's
\* fields and the holds on its locks.
C33_InvalidNewsessionIsInert ==
    [][\A w \in Workers :
         LET r == IF resp'.worker = w THEN [kind |-> resp'.kind, body |-> resp'.req]
                  ELSE req'[w]
         IN  (/\ resp'.worker = w \/ pc'[w] \notin {pc[w], "terminated"}
              /\ r.kind = "newsession"
              /\ Mismatched(r))
             => /\ gateway' = gateway
                /\ readers' = readers
                /\ resp'.worker = w
                     => resp'.code = 401 /\ resp'.error = "Invalid password"]_vars

\* ------------------------------------------------------------ no session (SessionSpec)
\* C34: a request that a worker takes up while the session password is empty and
\* answers: a getstate or enqueue whose body is an object is answered 401, and
\* an authenticate is answered status false, whatever password the body holds,
\* the empty string and no password field included.
C34_NoSessionRejectsClients ==
    [][\A w \in Workers :
         (pc[w] = "idle" /\ session_password = "" /\ pc'[w] # "terminated")
         => /\ req'[w].kind \notin ClientTier
            /\ (resp'.worker = w /\ resp'.kind \in ClientTier)
                 => resp'.code = 401 /\ resp'.body = [status |-> FALSE]
            /\ (resp'.worker = w /\ resp'.kind = "authenticate")
                 => resp'.body.status = FALSE]_vars

\* Without a session, an authenticate with the empty password has been answered.
C34_Witness ==
    /\ session_password = ""
    /\ resp.kind = "authenticate"
    /\ resp.req = [password |-> ""]
    /\ resp.body.status = FALSE

\* ------------------------------------------------------------ the configured password (CredentialSpec)
\* C35: the step in which a handler of the device tier checks the password of an
\* object body answers 401 "Invalid password" exactly when the password differs
\* from the configured server password, whatever that is, the empty string
\* included.
C35_ServerCheckIsEquality ==
    [][\A w \in Workers :
         LET r == IF resp'.worker = w THEN [kind |-> resp'.kind, body |-> resp'.req]
                  ELSE req'[w]
         IN  (/\ \/ pc[w] = "idle" /\ r.kind \in {"fetch", "setonline", "setstate"}
                 \/ pc[w] = "ns_vsp" /\ pc'[w] # "ns_vsp"
              /\ pc'[w] # "terminated"
              /\ Has(r.body, "password"))
             => ((/\ resp'.worker = w
                  /\ resp'.code = 401
                  /\ resp'.error = "Invalid password") <=> r.body.password # password)]_vars

\* ------------------------------------------------------------ the counters (QueueSpec)
\* C36: total_processed_count never exceeds total_task_count.
C36_ProcessedAtMostTotal == total_processed_count <= total_task_count

\* No enqueue and no fetch is in progress.
Quiescent == \A w \in Workers : req[w].kind \notin {"enqueue", "fetch"}

\* C37: while no enqueue and no fetch is in progress, total_task_count is
\* total_processed_count plus the length of the queue plus the number of tasks
\* the clear command has removed; if clear never ran, the difference of the
\* counters is the length of the queue.
C37_CountersBalanceAtRest ==
    Quiescent
    => /\ total_task_count = total_processed_count + Len(tasks) + hist.removed
       /\ ~hist.cleared => total_task_count - total_processed_count = Len(tasks)

\* At rest after a clear that removed a task, a fetch that returned one and with
\* a task in the queue.
C37_Witness ==
    /\ Quiescent
    /\ hist.removed > 0
    /\ total_processed_count > 0
    /\ tasks # <<>>

\* ------------------------------------------------------------ sessions and the queue (GatewaySpec)
\* C38: no step of a setonline, in either direction, and no step of a newsession
\* changes the queue, either counter or the device state; a task queued during a
\* session is still queued when setonline(false) has cleared the session.
C38_SessionsLeaveTheQueue ==
    [][\A w \in Workers :
         LET k == IF pc[w] # "idle" THEN req[w].kind
                  ELSE IF resp'.worker = w THEN resp'.kind
                  ELSE req'[w].kind
         IN  (k \in {"setonline", "newsession"} /\ (pc'[w] # pc[w] \/ resp'.worker = w))
             => <<tasks, total_task_count, total_processed_count, state>>'
                  = <<tasks, total_task_count, total_processed_count, state>>]_vars

\* After setonline(false) cleared the session under which a task was queued, and
\* with no clear at the console, a fetch has returned the task.
C38_Witness ==
    /\ session_password = "" /\ hist.revoked # {}
    /\ ~hist.cleared
    /\ resp.kind = "fetch" /\ resp.code = 200
    /\ Has(resp.body, "tasks") /\ Len(resp.body.tasks) > 0

\* ------------------------------------------------------------ the order of a request (OrderSpec)
\* C39: the queue holds its tasks in the order they were appended, and the tasks
\* an enqueue request has appended were appended in the order of their indices in
\* the request's tasks array, each being the task object at its index, whatever
\* other requests appended in between. Elements that are no task objects are
\* never queued, and a request with such an element is answered status false
\* with a count of at most its task objects.
C39_RequestOrderIsKept ==
    /\ \A a, b \in DOMAIN tasks : a < b => tasks[a].tag < tasks[b].tag
    /\ \A k \in DOMAIN tasks : tasks[k].type \in {"POWER", "SPEED", "MODE"}
    /\ \A w \in Workers :
          LET ps == loc[w].pushed
          IN  /\ \A a, b \in DOMAIN ps :
                    a < b => ps[a].tag < ps[b].tag /\ ps[a].i < ps[b].i
              /\ \A a \in DOMAIN ps : \A k \in DOMAIN tasks :
                    tasks[k].tag = ps[a].tag
                    => tasks[k] = Stamp(Deserialize(req[w].body.tasks.items[ps[a].i]),
                                        ps[a].tag)
    /\ (resp.kind = "enqueue" /\ resp.code = 200
          /\ NumTaskObjects(resp.req.tasks.items) < Len(resp.req.tasks.items))
        => /\ resp.body.status = FALSE
           /\ resp.body.queued <= NumTaskObjects(resp.req.tasks.items)

\* A request has appended the first and the third element of its array, the
\* second being no task object, and another request appended a task in between;
\* its second task is in the queue.
C39_Witness ==
    \E w \in Workers :
       /\ Len(loc[w].pushed) = 2
       /\ loc[w].pushed[1].i = 1 /\ loc[w].pushed[2].i = 3
       /\ loc[w].pushed[2].tag > loc[w].pushed[1].tag + 1
       /\ tasks # <<>>

====
